---- MODULE Spec2Model ----
(***************************************************************************)
(* Sink 'Em Fast: the socket game server (the server module of the         *)
(* repository, with reconstructGameState) and the board rules of           *)
(* src/lib/game-logic.ts.                                                  *)
(*                                                                         *)
(* The specifications share the variables:                                 *)
(*   Spec           the socket server: handlers interleave at the awaits   *)
(*                  of the durable store, which outlives a restart.        *)
(*   SpecLobby      create_game and join_game interleaved, with            *)
(*                  disconnects and restarts.                              *)
(*   SpecLobbyFail  the same events one at a time, with failing store      *)
(*                  calls, disconnects and restarts.                       *)
(*   SpecPlay       ships_placed and fire_shot interleaved.                *)
(*   SpecPlayFail   the same events one at a time, with failing store      *)
(*                  calls.                                                 *)
(*   SpecLogic      the board rules applied to bounded fleets and shots.   *)
(***************************************************************************)
EXTENDS Integers, Sequences, FiniteSets, Bags, TLC

VARIABLES
    db,        \* durable store: code -> game row with its players and shots
    games,     \* const games: code -> reference of the session object, 0 if absent
    heap,      \* the session objects the references point to
    handlers,  \* the event handlers in flight (a bag), each parked at an await
    rooms,     \* socket.io rooms: code -> sockets that joined the topic
    gone,      \* sockets that have disconnected
    hung,      \* TRUE once generateGameCode spins without a free code
    out,       \* events delivered by the last step
    lab        \* board-rules harness: fleet under fire and the recorded shots

vars == <<db, games, heap, handlers, rooms, gone, hung, out, lab>>

serverVars == <<db, games, heap, handlers, rooms, gone, hung, out>>

------------------------------------------------------------------------------
(* Board rules: src/lib/game-logic.ts                                       *)

GRID_SIZE == 10

NoShipId == ""

\* a sequence, and a function, given by a rule: the value with its elements
\* written out
Tup(f) == SubSeq(f, 1, Len(f))
Fn(f) == f @@ <<>>

\* the bounds test with the far edge let through
InGridPastEdge(c) == ~(c[1] < 0 \/ c[1] > GRID_SIZE \/ c[2] < 0 \/ c[2] > GRID_SIZE)

InGrid(c) == ~(c[1] < 0 \/ c[1] >= GRID_SIZE \/ c[2] < 0 \/ c[2] >= GRID_SIZE)

\* the cell validateShipPlacement visits for part i of a ship
PlacementCell(ship, i) ==
    << IF ship.isVertical THEN ship.x ELSE ship.x + i,
       IF ship.isVertical THEN ship.y + i ELSE ship.y >>

\* the cell checkShot and reconstructGameState visit for part i of a ship
ShotCell(ship, i) ==
    << IF ship.isVertical THEN ship.x ELSE ship.x + i,
       IF ship.isVertical THEN ship.y ELSE ship.y + i >>

RECURSIVE ValidateScan(_, _, _, _)
ValidateScan(ships, k, i, occupied) ==
    IF k > Len(ships) THEN TRUE
    ELSE IF i >= ships[k].size THEN ValidateScan(ships, k + 1, 0, occupied)
    ELSE LET c == PlacementCell(ships[k], i) IN
         IF ~InGrid(c) THEN FALSE
         ELSE IF c \in occupied THEN FALSE
         ELSE ValidateScan(ships, k, i + 1, occupied \cup {c})

\* a coordinate a ship carries is a number: the typeof test of the first
\* lines fails for the ships that lack x or y
validateShipPlacement(ships) ==
    IF \E k \in 1..Len(ships) : ~({"x", "y"} \subseteq DOMAIN ships[k]) THEN FALSE
    ELSE ValidateScan(ships, 1, 0, {})

ShipMatches(ship, x, y) ==
    \E i \in 0..(ship.size - 1) : ShotCell(ship, i) = <<x, y>>

\* index of the first ship of the scan that matches, 0 if none
FirstMatch(x, y, ships) ==
    IF \E k \in 1..Len(ships) : ShipMatches(ships[k], x, y)
    THEN CHOOSE k \in 1..Len(ships) :
            /\ ShipMatches(ships[k], x, y)
            /\ \A j \in 1..(k - 1) : ~ShipMatches(ships[j], x, y)
    ELSE 0

\* checkShot: the result, and the fleet as the call leaves it (hits mutated)
checkShot(x, y, targetShips) ==
    LET k     == FirstMatch(x, y, targetShips)
        after == IF k = 0 THEN targetShips
                 ELSE [targetShips EXCEPT ![k].hits = @ + 1]
        isHit == k # 0
        isSunk == IF isHit THEN after[k].hits = after[k].size ELSE FALSE
        isWin == IF isSunk
                 THEN \A j \in 1..Len(after) : after[j].hits >= after[j].size
                 ELSE FALSE
    IN [isHit |-> isHit,
        hitShipId |-> IF isHit THEN after[k].id ELSE NoShipId,
        isSunk |-> isSunk,
        isWin |-> isWin,
        ships |-> after]

\* validateShot with the far edge let through
validateShotPastEdge(x, y, existingShots) ==
    IF x < 0 \/ x > GRID_SIZE \/ y < 0 \/ y > GRID_SIZE THEN FALSE
    ELSE IF \E n \in 1..Len(existingShots) :
                existingShots[n].x = x /\ existingShots[n].y = y THEN FALSE
    ELSE TRUE

\* validateShot without the scan of the shots already taken
validateShotBoundsOnly(x, y, existingShots) ==
    ~(x < 0 \/ x >= GRID_SIZE \/ y < 0 \/ y >= GRID_SIZE)

validateShot(x, y, existingShots) ==
    IF x < 0 \/ x >= GRID_SIZE \/ y < 0 \/ y >= GRID_SIZE THEN FALSE
    ELSE IF \E n \in 1..Len(existingShots) :
                existingShots[n].x = x /\ existingShots[n].y = y THEN FALSE
    ELSE TRUE

------------------------------------------------------------------------------
(* Values shared by the store and the sessions                              *)

\* a ship as the client sends it and as the session keeps it
MkShip(id, size, x, y, isVertical) ==
    [id |-> id, size |-> size, x |-> x, y |-> y, isVertical |-> isVertical, hits |-> 0]

\* ShipPlacementData: what the player row stores (no hit count)
ToPlacement(s) ==
    [id |-> s.id, size |-> s.size, x |-> s.x, y |-> s.y, isVertical |-> s.isVertical]

\* hits of one stored placement as reconstructGameState recomputes them
ReconstructHits(p, opponentShots) ==
    Cardinality({ i \in 0..(p.size - 1) :
        \E n \in 1..Len(opponentShots) :
            /\ opponentShots[n].x = ShotCell(p, i)[1]
            /\ opponentShots[n].y = ShotCell(p, i)[2]
            /\ opponentShots[n].isHit })

ReconstructShip(p, opponentShots) ==
    [id |-> p.id, size |-> p.size, x |-> p.x, y |-> p.y,
     isVertical |-> p.isVertical, hits |-> ReconstructHits(p, opponentShots)]

------------------------------------------------------------------------------
(* Bounds and input sets                                                    *)

NumSockets == 3
NumCodes == 1
MaxInFlight == 2
MaxDisconnects == 1

SockName == <<"s1", "s2", "s3", "s4">>
CodeName == <<"GAMEAA", "GAMEBB", "GAMECC">>

Sockets == { SockName[i] : i \in 1..NumSockets }

\* the codes generateGameCode can draw in the run at hand
InitCodes == { CodeName[i] : i \in 1..NumCodes }
Codes == DOMAIN games
ObjIds == 1..(NumCodes + MaxInFlight)

\* fleets a client sends with ships_placed: a destroyer lying on row 0,
\* and the same destroyer pushed over the right edge
Fleets == { << MkShip("destroyer", 2, 0, 0, FALSE) >>,
            << MkShip("destroyer", 2, 9, 0, FALSE) >> }

\* coordinates a client sends with fire_shot
ShotCoords == { <<0, 0>>, <<1, 1>> }

------------------------------------------------------------------------------
(* Durable store (prisma/schema.prisma) and session objects (lib/types.ts)  *)

NoPlayer == 0
NoObj == 0
Unknown == "unknown"
Stale == "disconnected_"

NoRow ==
    [exists |-> FALSE, status |-> "WAITING", players |-> <<>>, shots |-> <<>>,
     turn |-> NoPlayer, winner |-> NoPlayer]

DbPlayer(id) == [id |-> id, placed |-> FALSE, ships |-> <<>>]

NullGame ==
    [live |-> FALSE, gameCode |-> "", players |-> <<>>, status |-> "",
     currentTurn |-> NoPlayer]

MemoryPlayer(id, socketId) ==
    [id |-> id, socketId |-> socketId, hasShips |-> FALSE, ships |-> <<>>,
     isReady |-> FALSE, shots |-> <<>>]

\* Array.prototype.find / findIndex: the first index that passes, 0 if none
FirstIndex(seq, Test(_)) ==
    IF \E n \in 1..Len(seq) : Test(seq[n])
    THEN CHOOSE n \in 1..Len(seq) :
            Test(seq[n]) /\ \A m \in 1..(n - 1) : ~Test(seq[m])
    ELSE 0

FindBySocket(players, s) == LET T(p) == p.socketId = s IN FirstIndex(players, T)
FindById(players, id) == LET T(p) == p.id = id IN FirstIndex(players, T)
FindOther(players, id) == LET T(p) == p.id # id IN FirstIndex(players, T)

ShotsOf(shots, id) == LET T(s) == s.playerId = id IN SelectSeq(shots, T)
ShotsNotOf(shots, id) == LET T(s) == s.playerId # id IN SelectSeq(shots, T)
ToShot(s) == [x |-> s.x, y |-> s.y, isHit |-> s.isHit]

reconstructGameState(dbGame, gameCode) ==
    [live |-> TRUE,
     gameCode |-> gameCode,
     players |-> Tup([ n \in 1..Len(dbGame.players) |->
        LET dbPlayer == dbGame.players[n]
            opponentShots == ShotsNotOf(dbGame.shots, dbPlayer.id)
            mine == ShotsOf(dbGame.shots, dbPlayer.id)
        IN [id |-> dbPlayer.id,
            socketId |-> Unknown,
            hasShips |-> dbPlayer.placed,
            ships |-> IF dbPlayer.placed
                      THEN Tup([ k \in 1..Len(dbPlayer.ships) |->
                               ReconstructShip(dbPlayer.ships[k], opponentShots) ])
                      ELSE <<>>,
            isReady |-> dbPlayer.placed,
            shots |-> Tup([ m \in 1..Len(mine) |-> ToShot(mine[m]) ])] ]),
     status |-> dbGame.status,
     currentTurn |-> dbGame.turn]

\* player ids are fresh on every insert
RECURSIVE CountPlayers(_, _)
CountPlayers(d, cs) ==
    IF cs = {} THEN 0
    ELSE LET c == CHOOSE c \in cs : TRUE
         IN Len(d[c].players) + CountPlayers(d, cs \ {c})

NewPlayerId(d) == CountPlayers(d, Codes) + 1

------------------------------------------------------------------------------
(* Handlers in flight                                                       *)
(*                                                                          *)
(* A handler runs without interruption from one await to the next.  Every   *)
(* await of the server is a call of the durable store; the call takes       *)
(* effect, or fails, at the step at which the handler goes on.              *)

NoResult == [isHit |-> FALSE, hitShipId |-> NoShipId, isSunk |-> FALSE, isWin |-> FALSE]

\* the locals a handler keeps across its awaits
Handler(kind, pc, sock, code, game) ==
    [kind |-> kind, pc |-> pc, sock |-> sock, code |-> code, game |-> game,
     who |-> 0, tgt |-> 0, x |-> 0, y |-> 0, res |-> NoResult,
     placed |-> FALSE, ships |-> <<>>]

InFlight == BagToSet(handlers)

At(H, pc) == H \in InFlight /\ H.pc = pc

CanStart == BagCardinality(handlers) < MaxInFlight

Start(rec) == handlers (+) SetToBag({rec})
Done(H) == handlers (-) SetToBag({H})
Park(H, rec) == Done(H) (+) SetToBag({rec})

Referenced(o, g, hs) ==
    \/ \E c \in Codes : g[c] = o
    \/ \E H \in BagToSet(hs) : H.game = o

\* objects nothing refers to any more are reclaimed
Collect(hp, g, hs) ==
    Tup([ o \in ObjIds |-> IF Referenced(o, g, hs) THEN hp[o] ELSE NullGame ])

FreeObj == CHOOSE o \in ObjIds : ~heap[o].live /\ \A j \in 1..(o - 1) : heap[j].live

Commit(hs, g, hp) ==
    /\ handlers' = hs
    /\ games' = g
    /\ heap' = Collect(hp, g, hs)

\* events reach only sockets that are still connected
Ev(ev, to, p) == [ev |-> ev, to |-> to, p |-> p]
ToCaller(s, ev, p, dead) == IF s \in dead THEN {} ELSE { Ev(ev, s, p) }
ToRoom(members, ev, p, dead) == { Ev(ev, s, p) : s \in members \ dead }
Error(s, message, dead) == ToCaller(s, "error", [message |-> message], dead)

\* A socket that has left no trace in the server (no binding, no room, no
\* handler) is a connection like any other: of these only the first is let
\* act, the others would repeat its behaviours under another name
Known(s) ==
    \/ \E c \in Codes : s \in rooms[c]
    \/ \E o \in ObjIds : \E n \in 1..Len(heap[o].players) :
            heap[o].players[n].socketId = s
    \/ \E H \in InFlight : H.sock = s

SockIndex(s) == CHOOSE i \in 1..NumSockets : SockName[i] = s

Connected(s) ==
    /\ s \notin gone
    /\ \/ Known(s)
       \/ \A t \in Sockets : (t \notin gone /\ ~Known(t)) => SockIndex(s) <= SockIndex(t)

\* the sockets whose events the server receives
Live == { s \in Sockets : Connected(s) }

\* the process serves events, and the events of the last step are on the wire
Ready == ~hung /\ out = {}

CatchMessage(kind) ==
    CASE kind = "create" -> "Failed to create game"
      [] kind = "join" -> "Failed to join game"
      [] kind = "place" -> "Failed to process ship placement"
      [] kind = "fire" -> "Failed to process shot"

\* the awaited call rejects: the catch block runs and the handler ends
DbFail(H) ==
    /\ Ready
    /\ H \in InFlight
    /\ Commit(Done(H), games, heap)
    /\ out' = Error(H.sock, CatchMessage(H.kind), gone)
    /\ UNCHANGED <<db, rooms, gone, hung, lab>>

------------------------------------------------------------------------------
(* create_game                                                              *)

\* generateGameCode draws until the code is no key of games
CreateGame(s) ==
    /\ Ready
    /\ CanStart
    /\ \E c \in Codes :
        /\ games[c] = NoObj
        /\ handlers' = Start(Handler("create", "create_wait", s, c, NoObj))
    /\ out' = {}
    /\ UNCHANGED <<db, games, heap, rooms, gone, hung, lab>>

\* with every code taken the loop never ends and the event loop is blocked
CreateGameSpins(s) ==
    /\ Ready
    /\ \A c \in Codes : games[c] # NoObj
    /\ hung' = TRUE
    /\ out' = {}
    /\ UNCHANGED <<db, games, heap, handlers, rooms, gone, lab>>

\* create_game as it would be if the store accepted a second row with the
\* same code
CreateContinueCodeNotUnique(H) ==
    /\ Ready
    /\ At(H, "create_wait")
    /\ LET id == NewPlayerId(db)
           o == FreeObj
           game == [live |-> TRUE, gameCode |-> H.code,
                    players |-> << MemoryPlayer(id, H.sock) >>,
                    status |-> "waiting", currentTurn |-> NoPlayer]
       IN /\ db' = [db EXCEPT ![H.code] =
                       [exists |-> TRUE, status |-> "WAITING",
                        players |-> << DbPlayer(id) >>, shots |-> <<>>,
                        turn |-> NoPlayer, winner |-> NoPlayer]]
          /\ Commit(Done(H), [games EXCEPT ![H.code] = o], [heap EXCEPT ![o] = game])
          /\ rooms' = [rooms EXCEPT ![H.code] = @ \cup ({H.sock} \ gone)]
          /\ out' = ToCaller(H.sock, "game_created",
                             [gameCode |-> H.code, playerId |-> id], gone)
    /\ UNCHANGED <<gone, hung, lab>>

\* prisma.game.create resolves (Game.code is @unique: a row with a code
\* already stored is refused, which is DbFail)
CreateContinue(H) ==
    /\ Ready
    /\ At(H, "create_wait")
    /\ ~db[H.code].exists
    /\ LET id == NewPlayerId(db)
           o == FreeObj
           game == [live |-> TRUE, gameCode |-> H.code,
                    players |-> << MemoryPlayer(id, H.sock) >>,
                    status |-> "waiting", currentTurn |-> NoPlayer]
       IN /\ db' = [db EXCEPT ![H.code] =
                       [exists |-> TRUE, status |-> "WAITING",
                        players |-> << DbPlayer(id) >>, shots |-> <<>>,
                        turn |-> NoPlayer, winner |-> NoPlayer]]
          /\ Commit(Done(H), [games EXCEPT ![H.code] = o], [heap EXCEPT ![o] = game])
          /\ rooms' = [rooms EXCEPT ![H.code] = @ \cup ({H.sock} \ gone)]
          /\ out' = ToCaller(H.sock, "game_created",
                             [gameCode |-> H.code, playerId |-> id], gone)
    /\ UNCHANGED <<gone, hung, lab>>

------------------------------------------------------------------------------
(* join_game                                                                *)

JoinGame(s, c) ==
    /\ Ready
    /\ CanStart
    /\ Commit(Start(Handler("join", "join_find", s, c, games[c])), games, heap)
    /\ out' = {}
    /\ UNCHANGED <<db, rooms, gone, hung, lab>>

\* the matching as it would be if it took the last durable player that is
\* unbound
UnboundDbPlayerLast(dbPlayers, players) ==
    LET U == { n \in 1..Len(dbPlayers) :
                 LET m == FindById(players, dbPlayers[n].id)
                 IN m = 0 \/ players[m].socketId = Unknown }
    IN IF U = {} THEN 0 ELSE CHOOSE n \in U : \A k \in U : k <= n

\* step 2 of the matching: the first durable player that has no entry in the
\* session, or whose entry still carries the reconstruction placeholder
UnboundDbPlayer(dbPlayers, players) ==
    LET T(dbP) ==
            LET m == FindById(players, dbP.id)
            IN m = 0 \/ players[m].socketId = Unknown
    IN FirstIndex(dbPlayers, T)

\* the session join_game works on once prisma.game.findUnique has resolved
\* with a row: the one its read of the registry found, or a reconstruction
SessionOf(H) ==
    IF H.game = NoObj THEN reconstructGameState(db[H.code], H.code) ELSE heap[H.game]

\* the reference of that session; a reconstruction is a new object
ObjOf(H) == IF H.game = NoObj THEN FreeObj ELSE H.game

\* the durable player n is taken: its entry m of the session is bound to the
\* caller, or an entry is pushed if it has none
MatchFound(game, s, n, id, m) ==
    IF m # 0
    THEN [g1 |-> [game EXCEPT !.players[m].socketId = s],
          joining |-> m, dbJoining |-> n]
    ELSE [g1 |-> [game EXCEPT !.players = Append(@, MemoryPlayer(id, s))],
          joining |-> Len(game.players) + 1, dbJoining |-> n]

MatchUnbound(game, dbPlayers, s, n) ==
    IF n = 0 THEN [g1 |-> game, joining |-> 0, dbJoining |-> 0]
    ELSE MatchFound(game, s, n, dbPlayers[n].id, FindById(game.players, dbPlayers[n].id))

\* the matching of the caller: by socket id first, then with the first
\* durable player that is unbound; g1 is the session as the matching leaves it
MatchCaller(game, dbPlayers, s, bySock) ==
    IF bySock # 0
    THEN [g1 |-> game, joining |-> bySock,
          dbJoining |-> FindById(dbPlayers, game.players[bySock].id)]
    ELSE MatchUnbound(game, dbPlayers, s, UnboundDbPlayer(dbPlayers, game.players))

JoinMatching(H) ==
    MatchCaller(SessionOf(H), db[H.code].players, H.sock,
                FindBySocket(SessionOf(H).players, H.sock))

\* the branch join_game takes after the matching M
BranchOf(dbGame, M) ==
    IF M.joining # 0 /\ M.dbJoining # 0 THEN "rejoin"
    ELSE IF Len(M.g1.players) >= 2 THEN "is full"
    ELSE IF dbGame.status # "WAITING" THEN "has already started"
    ELSE "new player"

\* the branch join_game takes after the first findUnique
JoinOutcome(H) ==
    IF ~db[H.code].exists THEN "not found"
    ELSE IF db[H.code].status = "FINISHED" THEN "has already finished"
    ELSE BranchOf(db[H.code], JoinMatching(H))

\* join_game from the matching on: o is the session object, games1 the
\* registry once a reconstruction is stored in it
JoinMatched(H, dbGame, o, games1, M, branch) ==
    IF branch = "rejoin" THEN
        /\ Commit(Park(H, [H EXCEPT !.pc = "join_refetch",
                                    !.game = o, !.who = M.joining,
                                    !.placed = dbGame.players[M.dbJoining].placed,
                                    !.ships = dbGame.players[M.dbJoining].ships]),
                  games1,
                  [heap EXCEPT ![o] =
                      [M.g1 EXCEPT !.players[M.joining].socketId = H.sock]])
        /\ rooms' = [rooms EXCEPT ![H.code] = @ \cup ({H.sock} \ gone)]
        /\ out' = {}
    ELSE IF branch \in {"is full", "has already started"} THEN
        /\ Commit(Done(H), games1, [heap EXCEPT ![o] = M.g1])
        /\ out' = Error(H.sock, branch, gone)
        /\ UNCHANGED rooms
    ELSE
        /\ Commit(Park(H, [H EXCEPT !.pc = "join_create", !.game = o]),
                  games1, [heap EXCEPT ![o] = M.g1])
        /\ out' = {}
        /\ UNCHANGED rooms

\* prisma.game.findUnique resolves: reconstruct if needed, match the caller
JoinFound(H) ==
    /\ Ready
    /\ At(H, "join_find")
    /\ IF ~db[H.code].exists \/ db[H.code].status = "FINISHED" THEN
           /\ Commit(Done(H), games, heap)
           /\ out' = Error(H.sock, JoinOutcome(H), gone)
           /\ UNCHANGED rooms
       ELSE JoinMatched(H, db[H.code], ObjOf(H),
                        IF H.game = NoObj THEN [games EXCEPT ![H.code] = ObjOf(H)]
                                          ELSE games,
                        JoinMatching(H), JoinOutcome(H))
    /\ UNCHANGED <<db, gone, hung, lab>>

\* the rejoin as it would be if the game_state were made from the session
\* in memory
JoinRefetchedFromMemory(H) ==
    /\ Ready
    /\ At(H, "join_refetch")
    /\ LET latestDbGame == db[H.code]
           game == heap[H.game]
           me == game.players[H.who].id
           opp == FindOther(game.players, me)
           oppId == IF opp = 0 THEN NoPlayer ELSE game.players[opp].id
       IN /\ Commit(Done(H), games, heap)
          /\ out' = ToCaller(H.sock, "game_state",
                 [gameCode |-> H.code, playerId |-> me, opponentId |-> oppId,
                  status |-> latestDbGame.status,
                  hasShips |-> H.placed, ships |-> H.ships,
                  isPlayerTurn |-> game.currentTurn = me,
                  playerShots |-> game.players[H.who].shots,
                  opponentShots |-> IF opp = 0 THEN <<>> ELSE game.players[opp].shots,
                  winner |-> latestDbGame.winner], gone)
    /\ UNCHANGED <<db, rooms, gone, hung, lab>>

\* the second findUnique resolves: the game_state a rejoining caller gets
\* join_game's answer to a returning player, with the placement of the other
\* player's row in the ships field
JoinRefetchedOpponentShips(H) ==
    /\ Ready
    /\ At(H, "join_refetch")
    /\ LET latestDbGame == db[H.code]
           game == heap[H.game]
           me == game.players[H.who].id
           opp == FindOther(game.players, me)
           oppId == IF opp = 0 THEN NoPlayer ELSE game.players[opp].id
           theirRow == FindById(latestDbGame.players, oppId)
           mine == ShotsOf(latestDbGame.shots, me)
           theirs == ShotsOf(latestDbGame.shots, oppId)
       IN /\ Commit(Done(H), games, heap)
          /\ out' = ToCaller(H.sock, "game_state",
                 [gameCode |-> H.code, playerId |-> me, opponentId |-> oppId,
                  status |-> latestDbGame.status,
                  hasShips |-> theirRow # 0 /\ latestDbGame.players[theirRow].placed,
                  ships |-> IF theirRow = 0 THEN <<>>
                            ELSE latestDbGame.players[theirRow].ships,
                  isPlayerTurn |-> latestDbGame.turn = me,
                  playerShots |-> Tup([ k \in 1..Len(mine) |-> ToShot(mine[k]) ]),
                  opponentShots |-> Tup([ k \in 1..Len(theirs) |-> ToShot(theirs[k]) ]),
                  winner |-> latestDbGame.winner], gone)
    /\ UNCHANGED <<db, rooms, gone, hung, lab>>

JoinRefetched(H) ==
    /\ Ready
    /\ At(H, "join_refetch")
    /\ LET latestDbGame == db[H.code]
           game == heap[H.game]
           me == game.players[H.who].id
           opp == FindOther(game.players, me)
           oppId == IF opp = 0 THEN NoPlayer ELSE game.players[opp].id
           mine == ShotsOf(latestDbGame.shots, me)
           theirs == ShotsOf(latestDbGame.shots, oppId)
       IN /\ Commit(Done(H), games, heap)
          /\ out' = ToCaller(H.sock, "game_state",
                 [gameCode |-> H.code, playerId |-> me, opponentId |-> oppId,
                  status |-> latestDbGame.status,
                  hasShips |-> H.placed, ships |-> H.ships,
                  isPlayerTurn |-> latestDbGame.turn = me,
                  playerShots |-> Tup([ k \in 1..Len(mine) |-> ToShot(mine[k]) ]),
                  opponentShots |-> Tup([ k \in 1..Len(theirs) |-> ToShot(theirs[k]) ]),
                  winner |-> latestDbGame.winner], gone)
    /\ UNCHANGED <<db, rooms, gone, hung, lab>>

\* prisma.player.create resolves; the status update is issued
JoinCreated(H) ==
    /\ Ready
    /\ At(H, "join_create")
    /\ db' = [db EXCEPT ![H.code].players = Append(@, DbPlayer(NewPlayerId(db)))]
    /\ handlers' = Park(H, [H EXCEPT !.pc = "join_update", !.who = NewPlayerId(db)])
    /\ out' = {}
    /\ UNCHANGED <<games, heap, rooms, gone, hung, lab>>

\* join_game as it would be if the session kept its status when the second
\* player enters
JoinUpdatedKeepsStatus(H) ==
    /\ Ready
    /\ At(H, "join_update")
    /\ LET g1 == [heap[H.game] EXCEPT !.players = Append(@, MemoryPlayer(H.who, H.sock))]
           members == rooms[H.code] \cup ({H.sock} \ gone)
       IN /\ db' = [db EXCEPT ![H.code].status = "PLACING_SHIPS"]
          /\ Commit(Done(H), games, [heap EXCEPT ![H.game] = g1])
          /\ rooms' = [rooms EXCEPT ![H.code] = members]
          /\ out' = ToRoom(members, "game_state",
                 [gameCode |-> H.code, status |-> g1.status,
                  players |-> Tup([ k \in 1..Len(g1.players) |-> g1.players[k].id ])], gone)
    /\ UNCHANGED <<gone, hung, lab>>

\* prisma.game.update resolves: the new player enters the session
JoinUpdated(H) ==
    /\ Ready
    /\ At(H, "join_update")
    /\ LET g1 == [heap[H.game] EXCEPT !.players = Append(@, MemoryPlayer(H.who, H.sock)),
                                      !.status = "placing_ships"]
           members == rooms[H.code] \cup ({H.sock} \ gone)
       IN /\ db' = [db EXCEPT ![H.code].status = "PLACING_SHIPS"]
          /\ Commit(Done(H), games, [heap EXCEPT ![H.game] = g1])
          /\ rooms' = [rooms EXCEPT ![H.code] = members]
          /\ out' = ToRoom(members, "game_state",
                 [gameCode |-> H.code, status |-> "placing_ships",
                  players |-> Tup([ k \in 1..Len(g1.players) |-> g1.players[k].id ])], gone)
    /\ UNCHANGED <<gone, hung, lab>>

------------------------------------------------------------------------------
(* ships_placed                                                             *)

\* the guards of ships_placed without the validation of the fleet
ShipsPlacedRejectionUnvalidated(s, c, ships) ==
    IF games[c] = NoObj THEN "Game not found"
    ELSE IF FindBySocket(heap[games[c]].players, s) = 0 THEN "Player not found in game"
    ELSE ""

\* the guards before the first await: the message of the error the caller is
\* answered with, "" if the event passes
ShipsPlacedRejection(s, c, ships) ==
    IF games[c] = NoObj THEN "Game not found"
    ELSE IF FindBySocket(heap[games[c]].players, s) = 0 THEN "Player not found in game"
    ELSE IF ~validateShipPlacement(ships) THEN "Invalid ship placement"
    ELSE ""

\* a rejected event answers its caller alone with an error and leaves the
\* server as it was
ShipsPlaced(s, c, ships) ==
    /\ Ready
    /\ LET why == ShipsPlacedRejection(s, c, ships) IN
       IF why # "" THEN
           /\ out' = Error(s, why, gone)
           /\ UNCHANGED <<games, heap, handlers>>
       ELSE
           /\ CanStart
           /\ LET game == heap[games[c]]
                  player == FindBySocket(game.players, s)
              IN Commit(Start([Handler("place", "place_save", s, c, games[c])
                                 EXCEPT !.tgt = player,
                                        !.who = game.players[player].id,
                                        !.ships = ships]),
                        games, heap)
           /\ out' = {}
    /\ UNCHANGED <<db, rooms, gone, hung, lab>>

SavePlacements(players, id, ships) ==
    Tup([ n \in 1..Len(players) |->
        IF players[n].id = id
        THEN [players[n] EXCEPT !.placed = TRUE,
                                !.ships = Tup([ k \in 1..Len(ships) |-> ToPlacement(ships[k]) ])]
        ELSE players[n] ])

\* ships_placed as it would be if the game started as soon as the caller of
\* a session of two is ready
PlaceSavedCallerReady(H) ==
    /\ Ready
    /\ At(H, "place_save")
    /\ LET g1 == [heap[H.game] EXCEPT
                     !.players[H.tgt].ships = Tup([ k \in 1..Len(H.ships) |->
                                                  [H.ships[k] EXCEPT !.hits = 0] ]),
                     !.players[H.tgt].hasShips = TRUE,
                     !.players[H.tgt].isReady = TRUE]
           allPlayersReady == /\ Len(g1.players) = 2
                              /\ g1.players[H.tgt].isReady
       IN /\ db' = [db EXCEPT ![H.code].players = SavePlacements(@, H.who, H.ships)]
          /\ out' = ToRoom(rooms[H.code] \ {H.sock}, "opponent_placed_ships",
                           [gameCode |-> H.code], gone)
          /\ IF allPlayersReady THEN
                \E k \in 1..2 :
                    Commit(Park(H, [H EXCEPT !.pc = "place_activate",
                                             !.who = g1.players[k].id]),
                           games,
                           [heap EXCEPT ![H.game] =
                               [g1 EXCEPT !.status = "active",
                                          !.currentTurn = g1.players[k].id]])
             ELSE Commit(Done(H), games, [heap EXCEPT ![H.game] = g1])
    /\ UNCHANGED <<rooms, gone, hung, lab>>

\* prisma.player.update resolves: record the fleet, and start the game when
\* both players are ready (k is the outcome of Math.random() < 0.5 ? 0 : 1)
PlaceSaved(H) ==
    /\ Ready
    /\ At(H, "place_save")
    /\ LET g1 == [heap[H.game] EXCEPT
                     !.players[H.tgt].ships = Tup([ k \in 1..Len(H.ships) |->
                                                  [H.ships[k] EXCEPT !.hits = 0] ]),
                     !.players[H.tgt].hasShips = TRUE,
                     !.players[H.tgt].isReady = TRUE]
           allPlayersReady == /\ Len(g1.players) = 2
                              /\ \A n \in 1..Len(g1.players) : g1.players[n].isReady
       IN /\ db' = [db EXCEPT ![H.code].players = SavePlacements(@, H.who, H.ships)]
          /\ out' = ToRoom(rooms[H.code] \ {H.sock}, "opponent_placed_ships",
                           [gameCode |-> H.code], gone)
          /\ IF allPlayersReady THEN
                \E k \in 1..2 :
                    Commit(Park(H, [H EXCEPT !.pc = "place_activate",
                                             !.who = g1.players[k].id]),
                           games,
                           [heap EXCEPT ![H.game] =
                               [g1 EXCEPT !.status = "active",
                                          !.currentTurn = g1.players[k].id]])
             ELSE Commit(Done(H), games, [heap EXCEPT ![H.game] = g1])
    /\ UNCHANGED <<rooms, gone, hung, lab>>

\* the activation update without currentTurnPlayerId in its data
PlaceActivatedStatusOnly(H) ==
    /\ Ready
    /\ At(H, "place_activate")
    /\ db' = [db EXCEPT ![H.code].status = "ACTIVE"]
    /\ Commit(Done(H), games, heap)
    /\ out' = ToRoom(rooms[H.code], "game_state",
           [gameCode |-> H.code, status |-> "active", currentTurn |-> H.who], gone)
    /\ UNCHANGED <<rooms, gone, hung, lab>>

\* prisma.game.update resolves: the start of the game is announced
PlaceActivated(H) ==
    /\ Ready
    /\ At(H, "place_activate")
    /\ db' = [db EXCEPT ![H.code].status = "ACTIVE", ![H.code].turn = H.who]
    /\ Commit(Done(H), games, heap)
    /\ out' = ToRoom(rooms[H.code], "game_state",
           [gameCode |-> H.code, status |-> "active", currentTurn |-> H.who], gone)
    /\ UNCHANGED <<rooms, gone, hung, lab>>

------------------------------------------------------------------------------
(* fire_shot                                                                *)

\* target = players.find(p => p.id !== shooter?.id)
TargetOf(players, shooter) ==
    IF shooter = 0 THEN (IF Len(players) > 0 THEN 1 ELSE 0)
    ELSE FindOther(players, players[shooter].id)

\* the guards of fire_shot without the test of the turn
FireShotRejectionInAnyTurn(g, hp, s, c, x, y) ==
    IF g[c] = NoObj THEN "Game not found"
    ELSE LET game == hp[g[c]]
             shooter == FindBySocket(game.players, s)
             target == TargetOf(game.players, shooter)
         IN IF shooter = 0 \/ target = 0 THEN "Players not found"
            ELSE IF game.status # "active" THEN "Game not active"
            ELSE IF ~game.players[target].hasShips THEN "Target has no ships placed yet"
            ELSE IF ~validateShot(x, y, game.players[shooter].shots)
                 THEN "Invalid shot (out of bounds or already taken)"
            ELSE ""

\* the guards of fire_shot read in a registry g and a heap hp: the message
\* of the error the caller is answered with, "" if the shot passes
FireShotRejectionIn(g, hp, s, c, x, y) ==
    IF g[c] = NoObj THEN "Game not found"
    ELSE LET game == hp[g[c]]
             shooter == FindBySocket(game.players, s)
             target == TargetOf(game.players, shooter)
         IN IF shooter = 0 \/ target = 0 THEN "Players not found"
            ELSE IF game.status # "active" THEN "Game not active"
            ELSE IF game.currentTurn # game.players[shooter].id THEN "Not your turn"
            ELSE IF ~game.players[target].hasShips THEN "Target has no ships placed yet"
            ELSE IF ~validateShot(x, y, game.players[shooter].shots)
                 THEN "Invalid shot (out of bounds or already taken)"
            ELSE ""

FireShotRejection(s, c, x, y) == FireShotRejectionIn(games, heap, s, c, x, y)

\* up to the first await: the guards, checkShot on the target's fleet and
\* the push onto the shooter's shots (a rejected shot answers its caller
\* alone and leaves the server as it was)
FireShot(s, c, x, y) ==
    /\ Ready
    /\ LET why == FireShotRejection(s, c, x, y) IN
       IF why # "" THEN
           /\ out' = Error(s, why, gone)
           /\ UNCHANGED <<games, heap, handlers>>
       ELSE
           /\ CanStart
           /\ LET game == heap[games[c]]
                  shooter == FindBySocket(game.players, s)
                  target == TargetOf(game.players, shooter)
                  shotResult == checkShot(x, y, game.players[target].ships)
                  g1 == [game EXCEPT
                            !.players[target].ships = shotResult.ships,
                            !.players[shooter].shots =
                                Append(@, [x |-> x, y |-> y, isHit |-> shotResult.isHit])]
              IN Commit(Start([Handler("fire", "fire_save", s, c, games[c])
                                 EXCEPT !.who = game.players[shooter].id,
                                        !.tgt = game.players[target].id,
                                        !.x = x, !.y = y,
                                        !.res = [isHit |-> shotResult.isHit,
                                                 hitShipId |-> shotResult.hitShipId,
                                                 isSunk |-> shotResult.isSunk,
                                                 isWin |-> shotResult.isWin]]),
                        games, [heap EXCEPT ![games[c]] = g1])
           /\ out' = {}
    /\ UNCHANGED <<db, rooms, gone, hung, lab>>

\* prisma.shot.create resolves: tell both sides, then finish the game or
\* pass the turn
FireSaved(H) ==
    /\ Ready
    /\ At(H, "fire_save")
    /\ LET shot == [x |-> H.x, y |-> H.y, isHit |-> H.res.isHit]
       IN /\ db' = [db EXCEPT ![H.code].shots =
                       Append(@, [x |-> H.x, y |-> H.y, isHit |-> H.res.isHit,
                                  playerId |-> H.who])]
          /\ out' = ToCaller(H.sock, "shot_result", shot, gone)
                    \cup ToRoom(rooms[H.code] \ {H.sock}, "opponent_shot", shot, gone)
                    \cup (IF H.res.isSunk
                          THEN ToCaller(H.sock, "ship_sunk",
                                        [shipId |-> H.res.hitShipId], gone)
                          ELSE {})
          /\ IF H.res.isSunk /\ H.res.isWin
             THEN Commit(Park(H, [H EXCEPT !.pc = "fire_finish"]),
                         games, [heap EXCEPT ![H.game].status = "finished"])
             ELSE Commit(Park(H, [H EXCEPT !.pc = "fire_turn"]),
                         games, [heap EXCEPT ![H.game].currentTurn = H.tgt])
    /\ UNCHANGED <<rooms, gone, hung, lab>>

\* the update of a won game resolves
FireFinished(H) ==
    /\ Ready
    /\ At(H, "fire_finish")
    /\ db' = [db EXCEPT ![H.code].status = "FINISHED", ![H.code].winner = H.who,
                        ![H.code].turn = NoPlayer]
    /\ Commit(Done(H), games, heap)
    /\ out' = ToRoom(rooms[H.code], "game_over", [winner |-> H.who], gone)
    /\ UNCHANGED <<rooms, gone, hung, lab>>

\* the update of the turn resolves
FireTurned(H) ==
    /\ Ready
    /\ At(H, "fire_turn")
    /\ db' = [db EXCEPT ![H.code].turn = H.tgt]
    /\ Commit(Done(H), games, heap)
    /\ out' = {}
    /\ UNCHANGED <<rooms, gone, hung, lab>>

------------------------------------------------------------------------------
(* disconnect, and the process going down                                   *)

\* disconnect as it would be if the player were removed from the session
\* (game.players.splice(playerIndex, 1))
DisconnectRemovesPlayer(s) ==
    /\ Ready
    /\ Cardinality(gone) < MaxDisconnects
    /\ gone' = gone \cup {s}
    /\ rooms' = Fn([c \in Codes |-> rooms[c] \ {s}])
    /\ LET held == { c \in Codes : games[c] # NoObj
                                   /\ FindBySocket(heap[games[c]].players, s) # 0 }
       IN IF held = {} THEN
              /\ out' = {}
              /\ UNCHANGED heap
          ELSE \E c \in held :
              LET o == games[c]
                  ps == heap[o].players
                  playerIndex == FindBySocket(ps, s)
              IN /\ heap' = [heap EXCEPT ![o].players =
                                Tup([ n \in 1..(Len(ps) - 1) |->
                                        IF n < playerIndex THEN ps[n] ELSE ps[n + 1] ])]
                 /\ out' = ToRoom(rooms[c] \ {s}, "opponent_disconnected",
                        [disconnectedPlayerId |-> ps[playerIndex].id],
                        gone \cup {s})
    /\ UNCHANGED <<db, games, handlers, hung, lab>>

\* the loop over games stops at the first session that holds the socket;
\* which one is first depends on the key order of the registry
Disconnect(s) ==
    /\ Ready
    /\ Cardinality(gone) < MaxDisconnects
    /\ gone' = gone \cup {s}
    /\ rooms' = Fn([c \in Codes |-> rooms[c] \ {s}])
    /\ LET held == { c \in Codes : games[c] # NoObj
                                   /\ FindBySocket(heap[games[c]].players, s) # 0 }
       IN IF held = {} THEN
              /\ out' = {}
              /\ UNCHANGED heap
          ELSE \E c \in held :
              LET o == games[c]
                  playerIndex == FindBySocket(heap[o].players, s)
              IN /\ heap' = [heap EXCEPT ![o].players[playerIndex].socketId = Stale]
                 /\ out' = ToRoom(rooms[c] \ {s}, "opponent_disconnected",
                        [disconnectedPlayerId |-> heap[o].players[playerIndex].id],
                        gone \cup {s})
    /\ UNCHANGED <<db, games, handlers, hung, lab>>

\* the process stops and starts again: memory and connections are lost,
\* the durable store is kept
Restart ==
    /\ out = {}
    /\ \E c \in Codes : db[c].exists
    /\ games' = Fn([c \in Codes |-> NoObj])
    /\ heap' = Tup([o \in ObjIds |-> NullGame])
    /\ handlers' = EmptyBag
    /\ rooms' = Fn([c \in Codes |-> {}])
    /\ gone' = {}
    /\ hung' = FALSE
    /\ out' = {}
    /\ UNCHANGED <<db, lab>>

\* the transport has handed the events of the last step to the sockets
Delivered ==
    /\ out # {}
    /\ out' = {}
    /\ UNCHANGED <<db, games, heap, handlers, rooms, gone, hung, lab>>

------------------------------------------------------------------------------
(* The socket server                                                        *)

LabIdle == [fleet |-> <<>>, ships |-> <<>>, shots |-> <<>>, last |-> NoResult,
            x |-> 0, y |-> 0, op |-> "", valid |-> FALSE]

Init ==
    /\ db = Fn([c \in InitCodes |-> NoRow])
    /\ games = Fn([c \in InitCodes |-> NoObj])
    /\ heap = Tup([o \in ObjIds |-> NullGame])
    /\ handlers = EmptyBag
    /\ rooms = Fn([c \in InitCodes |-> {}])
    /\ gone = {}
    /\ hung = FALSE
    /\ out = {}
    /\ lab = LabIdle

\* creating and joining, events arriving while handlers are parked, sockets
\* disconnecting and the process restarting; every call of the store succeeds
NextLobby ==
    \/ \E s \in Live : CreateGame(s)
    \/ \E H \in InFlight : CreateContinue(H)
    \/ \E s \in Live, c \in Codes : JoinGame(s, c)
    \/ \E H \in InFlight : JoinFound(H)
    \/ \E H \in InFlight : JoinRefetched(H)
    \/ \E H \in InFlight : JoinCreated(H)
    \/ \E H \in InFlight : JoinUpdated(H)
    \/ \E s \in Live : Disconnect(s)
    \/ Restart
    \/ Delivered

\* creating and joining, one event at a time (an event arrives when no
\* handler is parked); a call of the store may fail, a socket may disconnect
NextLobbyFail ==
    \/ /\ handlers = EmptyBag
       /\ \E s \in Live : CreateGame(s)
    \/ /\ handlers = EmptyBag
       /\ \E s \in Live : CreateGameSpins(s)
    \/ \E H \in InFlight : CreateContinue(H)
    \/ /\ handlers = EmptyBag
       /\ \E s \in Live, c \in Codes : JoinGame(s, c)
    \/ \E H \in InFlight : JoinFound(H)
    \/ \E H \in InFlight : JoinRefetched(H)
    \/ \E H \in InFlight : JoinCreated(H)
    \/ \E H \in InFlight : JoinUpdated(H)
    \/ \E H \in InFlight : DbFail(H)
    \/ \E s \in Live : Disconnect(s)
    \/ Restart
    \/ Delivered

\* placing and firing, events arriving while handlers are parked; every
\* call of the store succeeds
NextPlay ==
    \/ \E s \in Live, c \in Codes, ships \in Fleets : ShipsPlaced(s, c, ships)
    \/ \E H \in InFlight : PlaceSaved(H)
    \/ \E H \in InFlight : PlaceActivated(H)
    \/ \E s \in Live, c \in Codes, xy \in ShotCoords : FireShot(s, c, xy[1], xy[2])
    \/ \E H \in InFlight : FireSaved(H)
    \/ \E H \in InFlight : FireFinished(H)
    \/ \E H \in InFlight : FireTurned(H)
    \/ Delivered

\* placing and firing, one event at a time (an event arrives when no handler
\* is parked); a call of the store may fail
NextPlayFail ==
    \/ /\ handlers = EmptyBag
       /\ \E s \in Live, c \in Codes, ships \in Fleets : ShipsPlaced(s, c, ships)
    \/ /\ handlers = EmptyBag
       /\ \E s \in Live, c \in Codes, xy \in ShotCoords : FireShot(s, c, xy[1], xy[2])
    \/ \E H \in InFlight : PlaceSaved(H)
    \/ \E H \in InFlight : PlaceActivated(H)
    \/ \E H \in InFlight : FireSaved(H)
    \/ \E H \in InFlight : FireFinished(H)
    \/ \E H \in InFlight : FireTurned(H)
    \/ \E H \in InFlight : DbFail(H)
    \/ Delivered

\* every event at any time
Next ==
    \/ \E s \in Live : CreateGame(s)
    \/ \E s \in Live : CreateGameSpins(s)
    \/ \E H \in InFlight : CreateContinue(H)
    \/ \E s \in Live, c \in Codes : JoinGame(s, c)
    \/ \E H \in InFlight : JoinFound(H)
    \/ \E H \in InFlight : JoinRefetched(H)
    \/ \E H \in InFlight : JoinCreated(H)
    \/ \E H \in InFlight : JoinUpdated(H)
    \/ \E s \in Live, c \in Codes, ships \in Fleets : ShipsPlaced(s, c, ships)
    \/ \E H \in InFlight : PlaceSaved(H)
    \/ \E H \in InFlight : PlaceActivated(H)
    \/ \E s \in Live, c \in Codes, xy \in ShotCoords : FireShot(s, c, xy[1], xy[2])
    \/ \E H \in InFlight : FireSaved(H)
    \/ \E H \in InFlight : FireFinished(H)
    \/ \E H \in InFlight : FireTurned(H)
    \/ \E H \in InFlight : DbFail(H)
    \/ \E s \in Live : Disconnect(s)
    \/ Restart
    \/ Delivered

Spec == Init /\ [][Next]_vars

\* the lobby alone: games are created and joined, nobody places or fires
SpecLobby == Init /\ [][NextLobby]_vars

SpecLobbyFail == Init /\ [][NextLobbyFail]_vars

\* create_game by s1 and join_game by s2 have run one after the other
InitPlay ==
    /\ db = Fn([c \in InitCodes |->
               IF c = CodeName[1]
               THEN [exists |-> TRUE, status |-> "PLACING_SHIPS",
                     players |-> << DbPlayer(1), DbPlayer(2) >>, shots |-> <<>>,
                     turn |-> NoPlayer, winner |-> NoPlayer]
               ELSE NoRow])
    /\ games = Fn([c \in InitCodes |-> IF c = CodeName[1] THEN 1 ELSE NoObj])
    /\ heap = Tup([o \in ObjIds |->
               IF o = 1
               THEN [live |-> TRUE, gameCode |-> CodeName[1],
                     players |-> << MemoryPlayer(1, "s1"), MemoryPlayer(2, "s2") >>,
                     status |-> "placing_ships", currentTurn |-> NoPlayer]
               ELSE NullGame])
    /\ handlers = EmptyBag
    /\ rooms = Fn([c \in InitCodes |-> IF c = CodeName[1] THEN {"s1", "s2"} ELSE {}])
    /\ gone = {}
    /\ hung = FALSE
    /\ out = {}
    /\ lab = LabIdle

\* the game from the placement on
SpecPlay == InitPlay /\ [][NextPlay]_vars

SpecPlayFail == InitPlay /\ [][NextPlayFail]_vars

\* coordinates fired at when the players take their turns one after the
\* other: the two cells of the destroyer of Fleets, and a cell off its row
TurnCoords == { <<0, 0>>, <<1, 0>>, <<1, 1>> }

\* placing and firing, one event at a time; every call of the store succeeds
NextTurns ==
    \/ /\ handlers = EmptyBag
       /\ \E s \in Live, c \in Codes, ships \in Fleets : ShipsPlaced(s, c, ships)
    \/ /\ handlers = EmptyBag
       /\ \E s \in Live, c \in Codes, xy \in TurnCoords : FireShot(s, c, xy[1], xy[2])
    \/ \E H \in InFlight : PlaceSaved(H)
    \/ \E H \in InFlight : PlaceActivated(H)
    \/ \E H \in InFlight : FireSaved(H)
    \/ \E H \in InFlight : FireFinished(H)
    \/ \E H \in InFlight : FireTurned(H)
    \/ Delivered

SpecTurns == InitPlay /\ [][NextTurns]_vars

\* cells fired at, one of them past the edge of the grid
FrameCoords == { <<0, 0>>, <<1, 1>>, <<GRID_SIZE, 0>> }

\* placing and firing, also past the edge, one event at a time; every call
\* of the store succeeds
NextShooting ==
    \/ /\ handlers = EmptyBag
       /\ \E s \in Live, c \in Codes, ships \in Fleets : ShipsPlaced(s, c, ships)
    \/ /\ handlers = EmptyBag
       /\ \E s \in Live, c \in Codes, xy \in FrameCoords : FireShot(s, c, xy[1], xy[2])
    \/ \E H \in InFlight : PlaceSaved(H)
    \/ \E H \in InFlight : PlaceActivated(H)
    \/ \E H \in InFlight : FireSaved(H)
    \/ \E H \in InFlight : FireFinished(H)
    \/ \E H \in InFlight : FireTurned(H)
    \/ Delivered

SpecShooting == InitPlay /\ [][NextShooting]_vars

\* two valid placements of a destroyer, in different places of the grid
HiddenFleets == { << MkShip("destroyer", 2, 0, 0, FALSE) >>,
                  << MkShip("destroyer", 2, 3, 3, TRUE) >> }

\* players placing their ships and joining again, also after a restart of the
\* server, one event at a time; no shot is fired
NextRejoin ==
    \/ /\ handlers = EmptyBag
       /\ \E s \in Live, c \in Codes : JoinGame(s, c)
    \/ \E H \in InFlight : JoinFound(H)
    \/ \E H \in InFlight : JoinRefetched(H)
    \/ /\ handlers = EmptyBag
       /\ \E s \in Live, c \in Codes, ships \in HiddenFleets : ShipsPlaced(s, c, ships)
    \/ \E H \in InFlight : PlaceSaved(H)
    \/ \E H \in InFlight : PlaceActivated(H)
    \/ Restart
    \/ Delivered

SpecRejoin == InitPlay /\ [][NextRejoin]_vars

\* the game from the placement on with the process restarting and the
\* players joining again, one event at a time; every call of the store
\* succeeds.  The game has its two players, so no join_game reaches
\* prisma.player.create.
NextResume ==
    \/ /\ handlers = EmptyBag
       /\ \E s \in Live, c \in Codes : JoinGame(s, c)
    \/ \E H \in InFlight : JoinFound(H)
    \/ \E H \in InFlight : JoinRefetched(H)
    \/ /\ handlers = EmptyBag
       /\ \E s \in Live, c \in Codes, ships \in Fleets : ShipsPlaced(s, c, ships)
    \/ /\ handlers = EmptyBag
       /\ \E s \in Live, c \in Codes, xy \in ShotCoords : FireShot(s, c, xy[1], xy[2])
    \/ \E H \in InFlight : PlaceSaved(H)
    \/ \E H \in InFlight : PlaceActivated(H)
    \/ \E H \in InFlight : FireSaved(H)
    \/ \E H \in InFlight : FireFinished(H)
    \/ \E H \in InFlight : FireTurned(H)
    \/ Restart
    \/ Delivered

SpecResume == InitPlay /\ [][NextResume]_vars

\* the same, and a call of the store may fail
NextResumeFail ==
    \/ NextResume
    \/ \E H \in InFlight : DbFail(H)

SpecResumeFail == InitPlay /\ [][NextResumeFail]_vars

\* a game from its creation on, one event at a time, with sockets
\* disconnecting; every call of the store succeeds
NextGame ==
    \/ /\ handlers = EmptyBag
       /\ \E s \in Live : CreateGame(s)
    \/ \E H \in InFlight : CreateContinue(H)
    \/ /\ handlers = EmptyBag
       /\ \E s \in Live, c \in Codes : JoinGame(s, c)
    \/ \E H \in InFlight : JoinFound(H)
    \/ \E H \in InFlight : JoinRefetched(H)
    \/ \E H \in InFlight : JoinCreated(H)
    \/ \E H \in InFlight : JoinUpdated(H)
    \/ /\ handlers = EmptyBag
       /\ \E s \in Live, c \in Codes, ships \in Fleets : ShipsPlaced(s, c, ships)
    \/ /\ handlers = EmptyBag
       /\ \E s \in Live, c \in Codes, xy \in ShotCoords : FireShot(s, c, xy[1], xy[2])
    \/ \E H \in InFlight : PlaceSaved(H)
    \/ \E H \in InFlight : PlaceActivated(H)
    \/ \E H \in InFlight : FireSaved(H)
    \/ \E H \in InFlight : FireFinished(H)
    \/ \E H \in InFlight : FireTurned(H)
    \/ \E s \in Live : Disconnect(s)
    \/ Delivered

SpecGame == Init /\ [][NextGame]_vars

\* a code space of two codes, so that a connection can be in two games
MaxGames == 2

InitTwoGames ==
    /\ db = Fn([c \in { CodeName[i] : i \in 1..MaxGames } |-> NoRow])
    /\ games = Fn([c \in { CodeName[i] : i \in 1..MaxGames } |-> NoObj])
    /\ heap = Tup([o \in ObjIds |-> NullGame])
    /\ handlers = EmptyBag
    /\ rooms = Fn([c \in { CodeName[i] : i \in 1..MaxGames } |-> {}])
    /\ gone = {}
    /\ hung = FALSE
    /\ out = {}
    /\ lab = LabIdle

\* games created and joined, one event at a time, and sockets disconnecting;
\* every call of the store succeeds
NextTwoGames ==
    \/ /\ handlers = EmptyBag
       /\ \E s \in Live : CreateGame(s)
    \/ \E H \in InFlight : CreateContinue(H)
    \/ /\ handlers = EmptyBag
       /\ \E s \in Live, c \in Codes : JoinGame(s, c)
    \/ \E H \in InFlight : JoinFound(H)
    \/ \E H \in InFlight : JoinRefetched(H)
    \/ \E H \in InFlight : JoinCreated(H)
    \/ \E H \in InFlight : JoinUpdated(H)
    \/ \E s \in Live : Disconnect(s)
    \/ Delivered

SpecTwoGames == InitTwoGames /\ [][NextTwoGames]_vars

------------------------------------------------------------------------------
(* Properties of the socket server                                          *)

\* C1: of the fire_shot events of one player, at most one is accepted per
\* turn: no two shots of the same player have both passed the turn check
\* and are both waiting for their Shot row.
C1_OneShotPerTurn ==
    \A H1 \in InFlight, H2 \in InFlight :
        (/\ H1.kind = "fire" /\ H2.kind = "fire"
         /\ H1.pc = "fire_save" /\ H2.pc = "fire_save"
         /\ H1.code = H2.code /\ H1.who = H2.who) => H1 = H2

\* C2: whatever the interleaving of join_game events, the session in memory
\* and the durable record of a game each hold at most two players.
C2_AtMostTwoPlayers ==
    \A c \in Codes :
        /\ Len(db[c].players) <= 2
        /\ games[c] # NoObj => Len(heap[games[c]].players) <= 2

\* the place of a status in waiting -> placing_ships -> active -> finished
StatusRank(status) ==
    CASE status \in {"waiting", "WAITING"} -> 0
      [] status \in {"placing_ships", "PLACING_SHIPS"} -> 1
      [] status \in {"active", "ACTIVE"} -> 2
      [] status \in {"finished", "FINISHED"} -> 3

\* C3: no step moves the status of a game backward, in the session in memory
\* or in the durable record.
C3_StatusNeverBackward ==
    [][\A c \in Codes :
          /\ db[c].exists => StatusRank(db'[c].status) >= StatusRank(db[c].status)
          /\ (games[c] # NoObj /\ games'[c] = games[c]) =>
                StatusRank(heap'[games[c]].status) >= StatusRank(heap[games[c]].status)]_vars

\* C6: when the write of the Shot row fails, the shot has left no trace in
\* the session (the shooter's history does not hold it) and the same shot,
\* sent again, passes the guards.
C6_FailedShotLeavesNoTrace ==
    [][\A H \in InFlight :
          (H.pc = "fire_save" /\ DbFail(H)) =>
              LET players == heap'[H.game].players
                  shooter == FindById(players, H.who)
              IN /\ \A n \in 1..Len(players[shooter].shots) :
                        ~(players[shooter].shots[n].x = H.x /\ players[shooter].shots[n].y = H.y)
                 /\ FireShotRejectionIn(games', heap', H.sock, H.code, H.x, H.y) = ""]_vars

\* C7: once the session is finished, every ships_placed and every fire_shot
\* is rejected.
C7_FinishedRejectsAll ==
    \A c \in Codes :
        (games[c] # NoObj /\ heap[games[c]].status = "finished") =>
            \A s \in Sockets \ gone :
                /\ \A ships \in Fleets : ShipsPlacedRejection(s, c, ships) # ""
                /\ \A xy \in ShotCoords : FireShotRejection(s, c, xy[1], xy[2]) # ""

\* C8: a join_game sent from a new connection when a player of the live
\* session has disconnected is matched with that player: it takes the rejoin
\* branch (answered with game_state, not error) and the session gains no
\* player.
C8_DisconnectedPlayerRejoins ==
    [][\A s \in Sockets, c \in Codes :
          (/\ games[c] # NoObj
           /\ db[c].exists /\ db[c].status # "FINISHED"
           /\ FindBySocket(heap[games[c]].players, s) = 0
           /\ \E n \in 1..Len(heap[games[c]].players) :
                  heap[games[c]].players[n].socketId = Stale
           /\ \A n \in 1..Len(heap[games[c]].players) :
                  heap[games[c]].players[n].socketId # Unknown
           /\ JoinGame(s, c))
          => LET H == Handler("join", "join_find", s, c, games[c])
                 M == JoinMatching(H)
             IN /\ JoinOutcome(H) = "rejoin"
                /\ heap[games[c]].players[M.joining].socketId = Stale
                /\ Len(M.g1.players) = Len(heap[games[c]].players)]_vars

\* C9: a join_game that found no session when it was sent, and resumes when
\* a concurrent join_game has installed the reconstruction of the two
\* durable players, keeps that session object: after the step the registry
\* session holds this connection and the connections bound before it.
C9_ConcurrentJoinsShareSession ==
    [][\A H \in InFlight :
          (/\ H.pc = "join_find" /\ H.game = NoObj
           /\ games[H.code] # NoObj
           /\ Len(db[H.code].players) = 2 /\ db[H.code].status = "PLACING_SHIPS"
           /\ FindBySocket(heap[games[H.code]].players, H.sock) = 0
           /\ \E n \in 1..Len(heap[games[H.code]].players) :
                  heap[games[H.code]].players[n].socketId = Unknown
           /\ JoinFound(H))
          => LET after == heap'[games'[H.code]].players IN
               /\ games'[H.code] = games[H.code]
               /\ FindBySocket(after, H.sock) # 0
               /\ \A s \in rooms[H.code] : FindBySocket(after, s) # 0]_vars

\* C10: an accepted shot that does not win passes the turn from the shooter
\* to the opponent, once, in the session and in the durable record: the
\* session's turn goes from shooter to opponent when the shot is recorded,
\* and when the handler of the shot ends both turns are the opponent's.
C10_ShotPassesTurn ==
    [][\A H \in InFlight :
          /\ (FireSaved(H) /\ ~(H.res.isSunk /\ H.res.isWin)) =>
                /\ heap[H.game].currentTurn = H.who
                /\ heap'[H.game].currentTurn = H.tgt
          /\ (H.pc = "fire_turn" /\ (FireTurned(H) \/ DbFail(H))) =>
                /\ heap'[H.game].currentTurn = H.tgt
                /\ db'[H.code].turn = H.tgt]_vars

\* C11: when the update of a won game has resolved, the session is finished
\* and no player holds the turn, in the session in memory and in the durable
\* record.
C11_WinClearsTurn ==
    [][\A H \in InFlight :
          FireFinished(H) =>
              /\ heap'[H.game].status = "finished"
              /\ heap'[H.game].currentTurn = NoPlayer
              /\ db'[H.code].status = "FINISHED"
              /\ db'[H.code].turn = NoPlayer]_vars

\* the cells a fleet occupies on the board it was placed on
FleetCells(ships) ==
    UNION { { PlacementCell(ships[k], i) : i \in 0..(ships[k].size - 1) } :
                k \in 1..Len(ships) }

\* the hits a fleet has taken, and the hits a player has scored
RECURSIVE FleetHits(_)
FleetHits(ships) ==
    IF ships = <<>> THEN 0 ELSE Head(ships).hits + FleetHits(Tail(ships))

ShotsThatHit(shots) == LET T(sh) == sh.isHit IN Len(SelectSeq(shots, T))

\* C13: a game in which a player has fired at every cell of the opponent's
\* fleet is over: in no active session at rest (no handler in flight) do the
\* accepted shots of a player cover the fleet the opponent placed, when that
\* fleet has taken every hit the player scored.
C13_CoveredFleetEndsGame ==
    \A c \in Codes :
        (/\ games[c] # NoObj
         /\ \A H \in InFlight : H.code # c
         /\ heap[games[c]].status = "active") =>
            LET players == heap[games[c]].players IN
            \A n \in 1..Len(players), m \in 1..Len(players) :
                (/\ n # m
                 /\ players[m].hasShips
                 /\ FleetHits(players[m].ships) = ShotsThatHit(players[n].shots)) =>
                    ~(FleetCells(players[m].ships) \subseteq
                        { <<players[n].shots[k].x, players[n].shots[k].y>> :
                              k \in 1..Len(players[n].shots) })

\* no two shots of a sequence went to the same cell
NoRepeatedCell(shots) ==
    \A i \in 1..Len(shots), j \in 1..Len(shots) :
        (shots[i].x = shots[j].x /\ shots[i].y = shots[j].y) => i = j

PlayerIds(players) == { players[n].id : n \in 1..Len(players) }

\* the shots of player id as the durable record tells them
StoredShots(shots, id) ==
    LET mine == ShotsOf(shots, id) IN Tup([ k \in 1..Len(mine) |-> ToShot(mine[k]) ])

\* C15: when no handler is in flight for a game that is live in memory, the
\* session agrees with the durable record: same status, same player ids,
\* same current-turn player while active, and for each player the same
\* sequence of shots; also after a call of the store has failed.
C15_MemoryAgreesWithStore ==
    \A c \in Codes :
        (games[c] # NoObj /\ \A H \in InFlight : H.code # c) =>
            LET game == heap[games[c]] IN
            /\ StatusRank(game.status) = StatusRank(db[c].status)
            /\ PlayerIds(game.players) = PlayerIds(db[c].players)
            /\ game.status = "active" => game.currentTurn = db[c].turn
            /\ \A n \in 1..Len(game.players) :
                   game.players[n].shots = StoredShots(db[c].shots, game.players[n].id)

\* C16: the durable write of a change of status or turn comes first: at
\* every step that changes the status or the current turn of a session, the
\* durable record holds the new value (its write has resolved), and a step
\* at which a call
\* of the store fails leaves the session's status and turn as they were
\* before the handler of that call changed them, which is what the record
\* holds.
C16_PersistBeforeMutate ==
    [][\A c \in Codes :
          (games[c] # NoObj /\ games'[c] = games[c]) =>
              LET before == heap[games[c]]
                  after == heap'[games[c]]
              IN /\ after.status # before.status =>
                        StatusRank(db'[c].status) = StatusRank(after.status)
                 /\ after.currentTurn # before.currentTurn =>
                        db'[c].turn = after.currentTurn
                 /\ (\E H \in InFlight : H.code = c /\ DbFail(H)) =>
                        /\ StatusRank(after.status) = StatusRank(db'[c].status)
                        /\ after.status = "active" => after.currentTurn = db'[c].turn]_vars

\* C17: while a game is active its current-turn player is defined and is
\* one of its two players, in every session object (built by the handlers
\* or reconstructed from the record) and in the durable record.
C17_ActiveTurnIsAPlayer ==
    /\ \A o \in ObjIds :
           (heap[o].live /\ heap[o].status \in {"active", "ACTIVE"}) =>
               /\ Len(heap[o].players) = 2
               /\ heap[o].currentTurn # NoPlayer
               /\ heap[o].currentTurn \in PlayerIds(heap[o].players)
    /\ \A c \in Codes :
           db[c].status = "ACTIVE" =>
               /\ Len(db[c].players) = 2
               /\ db[c].turn # NoPlayer
               /\ db[c].turn \in PlayerIds(db[c].players)

\* an active game that was reconstructed from the record after a restart:
\* the session carries the stored status and the stored turn
C17_ReconstructedActive ==
    \E c \in Codes :
        /\ games[c] # NoObj
        /\ heap[games[c]].status = "ACTIVE"
        /\ heap[games[c]].currentTurn = db[c].turn
        /\ \E n \in 1..Len(heap[games[c]].players) :
               heap[games[c]].players[n].socketId \in Sockets

\* C18: in the durable record a winner is set only while the status is
\* FINISHED, it is set by the step that ends a won game to the player whose
\* shot won, and once set it never changes.
C18_WinnerOnlyWhenFinished ==
    [][\A c \in Codes :
          /\ db'[c].winner # NoPlayer => db'[c].status = "FINISHED"
          /\ db[c].winner # NoPlayer => db'[c].winner = db[c].winner
          /\ (db[c].winner = NoPlayer /\ db'[c].winner # NoPlayer) =>
                \E H \in InFlight :
                    /\ H.code = c /\ FireFinished(H)
                    /\ H.res.isWin /\ db'[c].winner = H.who]_vars

\* C21: when a new connection joins a waiting session of one player, the
\* second player is added, the status becomes placing_ships in the store and
\* in memory, and a game_state with that status and both player ids goes to
\* both players (to each one whose connection is still there)
C21_JoinAddsSecondPlayer ==
    [][\A H \in InFlight :
        (/\ JoinUpdated(H)
         /\ Len(heap[H.game].players) = 1
         /\ heap[H.game].status = "waiting")
        => LET g == heap'[H.game]
               d == db'[H.code]
           IN /\ Len(g.players) = 2
              /\ g.players[1] = heap[H.game].players[1]
              /\ g.players[2].socketId = H.sock
              /\ g.players[2].id # g.players[1].id
              /\ g.status = "placing_ships"
              /\ d.status = "PLACING_SHIPS"
              /\ Len(d.players) = 2
              /\ \A n \in 1..2 : d.players[n].id = g.players[n].id
              /\ \A n \in 1..2 :
                    g.players[n].socketId \in Sockets \ gone
                    => Ev("game_state", g.players[n].socketId,
                          [gameCode |-> H.code, status |-> "placing_ships",
                           players |-> Tup([ k \in 1..2 |-> g.players[k].id ])]) \in out'
    ]_vars

\* the second player has just entered and both players are being told
C21_BothToldOfSecondPlayer ==
    \E c \in Codes :
        /\ games[c] # NoObj
        /\ Len(heap[games[c]].players) = 2
        /\ heap[games[c]].status = "placing_ships"
        /\ db[c].status = "PLACING_SHIPS"
        /\ \A n \in 1..2 :
              \E e \in out : /\ e.ev = "game_state"
                             /\ e.to = heap[games[c]].players[n].socketId
                             /\ e.p.status = "placing_ships"
                             /\ Len(e.p.players) = 2

\* the caller of the join_game H is bound to a player of the session
BoundCaller(H) ==
    /\ H.game # NoObj
    /\ FindBySocket(heap[H.game].players, H.sock) # 0

\* C22: a join_game by a connection already bound to a player of the session
\* adds no player and changes no status, turn, fleet, shot or binding, and
\* the caller alone is answered, with a game_state
C22_BoundJoinIsNoOp ==
    [][\A H \in InFlight :
        /\ (JoinFound(H) /\ BoundCaller(H))
           => /\ UNCHANGED <<db, games, heap>>
              /\ out' = {}
              /\ \E H2 \in BagToSet(handlers') :
                    H2.pc = "join_refetch" /\ H2.sock = H.sock /\ H2.game = H.game
        /\ (JoinRefetched(H) /\ BoundCaller(H))
           => /\ UNCHANGED <<db, games, heap>>
              /\ \A e \in out' : e.ev = "game_state" /\ e.to = H.sock
              /\ H.sock \notin gone => out' # {}
    ]_vars

AllReady(game) ==
    /\ Len(game.players) = 2
    /\ \A n \in 1..Len(game.players) : game.players[n].isReady

\* C23: a session becomes active exactly when an accepted ships_placed
\* leaves both of its two players ready; the turn then goes to one of the
\* two, either being possible, and the status and the turn are broadcast;
\* with fewer than two players, or one of them not ready, it stays as it was
C23_ActiveExactlyWhenBothReady ==
    [][/\ \A o \in ObjIds :
            (heap[o].status # "active" /\ heap'[o].status = "active")
            => \E H \in InFlight : PlaceSaved(H) /\ H.game = o
       /\ \A H \in InFlight :
            /\ PlaceSaved(H)
               => LET g == heap'[H.game]
                  IN IF AllReady(g)
                     THEN /\ g.status = "active"
                          /\ \E n \in 1..2 : g.currentTurn = g.players[n].id
                          /\ \A n \in 1..2 :
                                ENABLED (/\ PlaceSaved(H)
                                         /\ heap'[H.game].currentTurn
                                                = heap'[H.game].players[n].id)
                     ELSE /\ g.status = heap[H.game].status
                          /\ g.currentTurn = heap[H.game].currentTurn
                          /\ \A e \in out' : e.ev # "game_state"
            /\ PlaceActivated(H)
               => LET g == heap'[H.game]
                  IN /\ AllReady(g)
                     /\ db'[H.code].status = "ACTIVE"
                     /\ db'[H.code].turn = g.currentTurn
                     /\ \A n \in 1..2 :
                           g.players[n].socketId \in Sockets \ gone
                           => Ev("game_state", g.players[n].socketId,
                                 [gameCode |-> H.code, status |-> "active",
                                  currentTurn |-> g.currentTurn]) \in out'
    ]_vars

\* the game has just started with the second player to move first, and both
\* players are being told
C23_SecondPlayerStarts ==
    \E c \in Codes :
        /\ games[c] # NoObj
        /\ AllReady(heap[games[c]])
        /\ heap[games[c]].status = "active"
        /\ heap[games[c]].currentTurn = heap[games[c]].players[2].id
        /\ \A n \in 1..2 :
              \E e \in out : /\ e.ev = "game_state"
                             /\ e.to = heap[games[c]].players[n].socketId
                             /\ e.p.status = "active"
                             /\ e.p.currentTurn = heap[games[c]].players[2].id

\* some cell of the fleet lies outside the grid
OffGrid(ships) ==
    \E cell \in FleetCells(ships) :
        cell[1] \notin 0..(GRID_SIZE - 1) \/ cell[2] \notin 0..(GRID_SIZE - 1)

\* C24: a ships_placed whose fleet fails the validation is answered with an
\* error to its caller alone and changes nothing: no fleet is recorded, no
\* player becomes ready, no opponent_placed_ships is sent
C24_InvalidFleetRejected ==
    [][\A s \in Sockets, c \in Codes, ships \in Fleets :
        (ShipsPlaced(s, c, ships) /\ OffGrid(ships))
        => /\ UNCHANGED <<db, games, heap, handlers, rooms>>
           /\ \E e \in out' : out' = {e} /\ e.ev = "error" /\ e.to = s
           /\ (games[c] # NoObj /\ FindBySocket(heap[games[c]].players, s) # 0)
              => out' = Error(s, "Invalid ship placement", {})
    ]_vars

\* a player of the game is being told that the fleet it sent is refused
C24_PlayerToldFleetInvalid ==
    \E c \in Codes, e \in out :
        /\ e.ev = "error"
        /\ e.p.message = "Invalid ship placement"
        /\ games[c] # NoObj
        /\ FindBySocket(heap[games[c]].players, e.to) # 0
        /\ Len(heap[games[c]].players) = 2

\* the sessions of the registry in which the socket s is bound to a player
HeldBy(s) ==
    { c \in Codes : games[c] # NoObj /\ FindBySocket(heap[games[c]].players, s) # 0 }

StandardFleet(ships) ==
    /\ Len(ships) = 5
    /\ \A z \in {5, 4, 2} : Cardinality({ k \in 1..Len(ships) : ships[k].size = z }) = 1
    /\ Cardinality({ k \in 1..Len(ships) : ships[k].size = 3 }) = 2

\* C26: every fleet recorded on a ready player, in memory and in the stored
\* placements, has exactly five ships of sizes 5, 4, 3, 3 and 2; no player is
\* ready with an empty fleet
C26_ReadyFleetIsStandard ==
    /\ \A o \in ObjIds : \A n \in 1..Len(heap[o].players) :
          heap[o].players[n].isReady => StandardFleet(heap[o].players[n].ships)
    /\ \A c \in Codes : \A n \in 1..Len(db[c].players) :
          db[c].players[n].placed => StandardFleet(db[c].players[n].ships)

\* C27: every create_game that succeeds registers its session under a code
\* that is the key of no session of the registry at that moment; it replaces
\* no session and shares its session object with no other code
C27_CreateTakesFreeCode ==
    [][\A H \in InFlight :
        CreateContinue(H)
        => /\ games[H.code] = NoObj
           /\ games'[H.code] # NoObj
           /\ ~heap[games'[H.code]].live
           /\ \A c \in Codes \ {H.code} :
                 games'[c] = games[c] /\ games'[c] # games'[H.code]
           /\ \A H2 \in BagToSet(handlers') : H2.game # games'[H.code]
    ]_vars

\* a create_game has just registered its session while another create_game
\* that drew the same code is still waiting for the store
C27_CreatedWhileRivalWaits ==
    \E c \in Codes, e \in out, H \in InFlight :
        /\ e.ev = "game_created"
        /\ e.p.gameCode = c
        /\ games[c] # NoObj
        /\ H.kind = "create"
        /\ H.code = c

\* C28: with every code the key of a session, create_game ends and answers
\* its caller with an error instead of running for ever
C28_ExhaustedCreateFails ==
    [][\A s \in Sockets :
        (/\ Ready
         /\ \A c \in Codes : games[c] # NoObj
         /\ CreateGameSpins(s))
        => /\ ~hung'
           /\ \E e \in out' : e.ev = "error" /\ e.to = s
    ]_vars

\* C30: the game_state of a rejoin goes to the caller alone and is made from
\* the stored record: playerId is the stored player the caller is bound to,
\* playerShots are the stored shots of that player, opponentShots those of
\* the other player, isPlayerTurn tells whether the stored turn is that
\* player's
C30_RejoinStateFromStore ==
    [][\A H \in InFlight :
        JoinRefetched(H)
        => LET game == heap[H.game]
               me == game.players[FindBySocket(game.players, H.sock)].id
               mine == ShotsOf(db[H.code].shots, me)
               theirs == ShotsNotOf(db[H.code].shots, me)
           IN /\ FindBySocket(game.players, H.sock) # 0
              /\ \E n \in 1..Len(db[H.code].players) : db[H.code].players[n].id = me
              /\ \E e \in out' :
                    /\ out' = {e}
                    /\ e.ev = "game_state"
                    /\ e.to = H.sock
                    /\ e.p.playerId = me
                    /\ e.p.playerShots = Tup([ k \in 1..Len(mine) |-> ToShot(mine[k]) ])
                    /\ e.p.opponentShots = Tup([ k \in 1..Len(theirs) |-> ToShot(theirs[k]) ])
                    /\ e.p.isPlayerTurn = (db[H.code].turn = me)
    ]_vars

\* a player whose last shot the store refused rejoins: the game_state it is
\* being sent lists the opponent's stored shot and not the refused one
C30_RejoinAfterRefusedShot ==
    \E c \in Codes, e \in out :
        /\ e.ev = "game_state"
        /\ "playerShots" \in DOMAIN e.p
        /\ games[c] # NoObj
        /\ LET n == FindBySocket(heap[games[c]].players, e.to)
           IN /\ n # 0
              /\ Len(e.p.opponentShots) > 0
              /\ e.p.isPlayerTurn
              /\ Len(e.p.playerShots) < Len(heap[games[c]].players[n].shots)

\* the cells the player n of the session game has fired at
FiredCells(game, n) ==
    { <<game.players[n].shots[k].x, game.players[n].shots[k].y>> :
        k \in 1..Len(game.players[n].shots) }

\* the reason for which the fire_shot of the player n of game at (x, y) is
\* to be refused, "" if there is none
RefusalOf(game, n, x, y) ==
    IF game.status # "active" THEN "Game not active"
    ELSE IF game.currentTurn # game.players[n].id THEN "Not your turn"
    ELSE IF x \notin 0..(GRID_SIZE - 1) \/ y \notin 0..(GRID_SIZE - 1)
            \/ <<x, y>> \in FiredCells(game, n)
         THEN "Invalid shot (out of bounds or already taken)"
    ELSE ""

\* C31: a fire_shot of a player of a two-player session that is refused
\* because the session is not active, the caller does not hold the turn, or
\* the cell is outside the grid or was fired at before, leaves the session
\* and the store unchanged and sends an error to the caller only
C31_RejectedShotChangesNothing ==
    [][\A s \in Sockets, c \in Codes, xy \in FrameCoords :
        (/\ FireShot(s, c, xy[1], xy[2])
         /\ games[c] # NoObj
         /\ Len(heap[games[c]].players) = 2
         /\ FindBySocket(heap[games[c]].players, s) # 0
         /\ RefusalOf(heap[games[c]], FindBySocket(heap[games[c]].players, s),
                      xy[1], xy[2]) # "")
        => /\ UNCHANGED <<db, games, heap, handlers, rooms>>
           /\ out' = { Ev("error", s,
                          [message |-> RefusalOf(heap[games[c]],
                                         FindBySocket(heap[games[c]].players, s),
                                         xy[1], xy[2])]) }
    ]_vars

\* the player whose turn it is, with a shot on record, is being told that
\* its shot is refused
C31_TurnHolderToldShotInvalid ==
    \E c \in Codes, e \in out :
        /\ e.ev = "error"
        /\ e.p.message = "Invalid shot (out of bounds or already taken)"
        /\ games[c] # NoObj
        /\ heap[games[c]].status = "active"
        /\ LET n == FindBySocket(heap[games[c]].players, e.to)
           IN /\ n # 0
              /\ heap[games[c]].currentTurn = heap[games[c]].players[n].id
              /\ Len(heap[games[c]].players[n].shots) > 0

\* C32: a session is waiting exactly when it has fewer than two players, and
\* with two players it is placing ships, active or finished; in memory and in
\* the stored record, also after a store call of a join has failed
C32_WaitingIffFewerThanTwo ==
    /\ \A c \in Codes :
          games[c] # NoObj
          => LET game == heap[games[c]]
             IN /\ game.status \in {"waiting", "WAITING"} <=> Len(game.players) < 2
                /\ Len(game.players) = 2
                   => game.status \in {"placing_ships", "active", "finished",
                                       "PLACING_SHIPS", "ACTIVE", "FINISHED"}
    /\ \A c \in Codes :
          db[c].exists
          => /\ db[c].status = "WAITING" <=> Len(db[c].players) < 2
             /\ Len(db[c].players) = 2
                => db[c].status \in {"PLACING_SHIPS", "ACTIVE", "FINISHED"}

\* the socket id the player n of the session of the join_game H carries when
\* the store answers: a session that is only now reconstructed binds nobody
BindingBefore(H, n) ==
    IF H.game = NoObj THEN Unknown ELSE heap[H.game].players[n].socketId

\* C33: once a game of two players has been reconstructed from the store,
\* the join_game events of distinct connections are bound to the stored
\* players in stored order, the first to the first player, the second to the
\* second; a third connection is refused as full and changes nothing
C33_RebindInStoredOrder ==
    [][\A H \in InFlight :
        (/\ JoinFound(H)
         /\ db[H.code].exists
         /\ db[H.code].status # "FINISHED"
         /\ Len(db[H.code].players) = 2
         /\ \A n \in 1..2 : BindingBefore(H, n) # H.sock)
        => LET U == { n \in 1..2 : BindingBefore(H, n) = Unknown }
               after == heap'[games'[H.code]]
           IN /\ games'[H.code] # NoObj
              /\ Len(after.players) = 2
              /\ \A n \in 1..2 : after.players[n].id = db[H.code].players[n].id
              /\ IF U # {}
                 THEN LET first == CHOOSE n \in U : \A k \in U : n <= k
                      IN /\ after.players[first].socketId = H.sock
                         /\ \A n \in 1..2 :
                               n # first => after.players[n].socketId = BindingBefore(H, n)
                         /\ out' = {}
                         /\ \E H2 \in BagToSet(handlers') :
                               H2.pc = "join_refetch" /\ H2.sock = H.sock
                 ELSE /\ UNCHANGED <<db, games, heap, rooms>>
                      /\ handlers' = Done(H)
                      /\ out' = { Ev("error", H.sock, [message |-> "is full"]) }
    ]_vars

\* after a restart both stored players are bound again, to two connections,
\* and a third connection is being told that the game is full
C33_ThirdJoinerRefused ==
    \E c \in Codes, e \in out :
        /\ e.ev = "error"
        /\ e.p.message = "is full"
        /\ games[c] # NoObj
        /\ heap[games[c]].status \in {"PLACING_SHIPS", "ACTIVE"}
        /\ Len(heap[games[c]].players) = 2
        /\ heap[games[c]].players[1].socketId \in Sockets \ {e.to}
        /\ heap[games[c]].players[2].socketId \in Sockets \ {e.to}
        /\ heap[games[c]].players[1].socketId # heap[games[c]].players[2].socketId

\* C34: no event of a transition is sent before all its store writes are
\* done: shot_result and opponent_shot only once the shot and the update of
\* the turn (or of the finish) are stored, the game_state of the start only
\* once status and turn are stored
C34_EventsAfterAllWrites ==
    \A e \in out :
        /\ e.ev \in {"shot_result", "opponent_shot"}
           => ~\E H \in InFlight :
                  /\ H.kind = "fire"
                  /\ H.pc \in {"fire_turn", "fire_finish"}
                  /\ H.x = e.p.x /\ H.y = e.p.y
        /\ (e.ev = "game_state" /\ e.p.status = "active")
           => /\ db[e.p.gameCode].status = "ACTIVE"
              /\ db[e.p.gameCode].turn = e.p.currentTurn

\* C35: in an active or finished session the numbers of shots the two
\* players have had accepted differ by at most one, in memory and in the store
C35_ShotCountsBalanced ==
    \A c \in Codes :
        /\ (/\ games[c] # NoObj
            /\ heap[games[c]].status \in {"active", "finished", "ACTIVE", "FINISHED"}
            /\ Len(heap[games[c]].players) = 2)
           => LET a == Len(heap[games[c]].players[1].shots)
                  b == Len(heap[games[c]].players[2].shots)
              IN a - b \in {-1, 0, 1}
        /\ (/\ db[c].exists
            /\ db[c].status \in {"ACTIVE", "FINISHED"}
            /\ Len(db[c].players) = 2)
           => LET a == Len(ShotsOf(db[c].shots, db[c].players[1].id))
                  b == Len(ShotsOf(db[c].shots, db[c].players[2].id))
              IN a - b \in {-1, 0, 1}

\* C36: once a session is active its turn changes only by an accepted
\* fire_shot; join_game, ships_placed and disconnect leave it as it is
C36_TurnChangesOnlyByShot ==
    [][\A o \in ObjIds :
        (/\ heap[o].status = "active"
         /\ heap'[o].live
         /\ heap'[o].currentTurn # heap[o].currentTurn)
        => \E H \in InFlight : H.kind = "fire" /\ H.game = o /\ FireSaved(H)
    ]_vars

\* a ship where it was placed, without its count of hits
Placed(ship) ==
    [id |-> ship.id, size |-> ship.size, x |-> ship.x, y |-> ship.y,
     isVertical |-> ship.isVertical]

\* C37: once a session is active, the count of hits of each of its ships
\* never goes down and never passes the size of the ship, and the fleet a
\* player has on record stays where it was placed
C37_FleetFixedHitsGrow ==
    [][\A o \in ObjIds :
        (heap[o].status = "active" /\ heap'[o].live)
        => \A n \in 1..Len(heap[o].players) :
              LET old == heap[o].players[n].ships
                  new == heap'[o].players[n].ships
              IN /\ Len(new) = Len(old)
                 /\ \A k \in 1..Len(old) :
                       /\ Placed(new[k]) = Placed(old[k])
                       /\ new[k].hits >= old[k].hits
                       /\ new[k].hits <= new[k].size
    ]_vars

\* C38: in a session in memory the id of a connection is bound to at most
\* one player: no two players of a session, of different ids, carry the
\* same socket id, unless it is the placeholder of a reconstruction or the
\* marker of a disconnect
C38_SocketBoundOnce ==
    \A o \in ObjIds :
        \A n, m \in 1..Len(heap[o].players) :
            (/\ heap[o].players[n].id # heap[o].players[m].id
             /\ heap[o].players[n].socketId \in Sockets)
            => heap[o].players[m].socketId # heap[o].players[n].socketId

\* C39: after a connection has disconnected no session of the registry has
\* a player bound to its id, and in every session it was a player of the
\* opponent has been sent opponent_disconnected, also when the connection
\* was in more than one game
C39_DisconnectClearsEveryGame ==
    [][\A s \in Sockets :
        Disconnect(s)
        => \A c \in Codes :
              games[c] # NoObj
              => LET n == FindBySocket(heap[games[c]].players, s)
                 IN /\ FindBySocket(heap'[games[c]].players, s) = 0
                    /\ n # 0
                       => \A m \in 1..Len(heap[games[c]].players) :
                             (/\ m # n
                              /\ heap[games[c]].players[m].socketId \in Sockets \ (gone \cup {s}))
                             => Ev("opponent_disconnected",
                                   heap[games[c]].players[m].socketId,
                                   [disconnectedPlayerId |-> heap[games[c]].players[n].id])
                                  \in out'
    ]_vars

\* the stored game without the placement of player id
WithoutFleetOf(row, id) ==
    [row EXCEPT !.players =
        Tup([ n \in 1..Len(row.players) |->
                IF row.players[n].id = id
                THEN [row.players[n] EXCEPT !.ships = <<>>]
                ELSE row.players[n] ])]

\* the ClientGameState of player me, read off the stored game
ClientGameState(row, code, me, oppId) ==
    LET n == FindById(row.players, me)
        mine == ShotsOf(row.shots, me)
        theirs == ShotsOf(row.shots, oppId)
    IN [gameCode |-> code, playerId |-> me, opponentId |-> oppId,
        status |-> row.status,
        hasShips |-> row.players[n].placed, ships |-> row.players[n].ships,
        isPlayerTurn |-> row.turn = me,
        playerShots |-> Tup([ k \in 1..Len(mine) |-> ToShot(mine[k]) ]),
        opponentShots |-> Tup([ k \in 1..Len(theirs) |-> ToShot(theirs[k]) ]),
        winner |-> row.winner]

\* C40: while no shot is stored, the game_state a returning player who is
\* still connected is sent
\* is the one read off the stored game with the opponent's placement blanked
\* out: its ships field is the stored placement of the player the caller is
\* bound to, and no field depends on where the opponent's ships lie, so two
\* runs that differ only there deliver the same events to the caller
C40_RejoinShowsOwnFleetOnly ==
    [][\A H \in InFlight :
        (JoinRefetched(H) /\ H.sock \notin gone /\ db[H.code].shots = <<>>)
        => LET game == heap[H.game]
               n == FindBySocket(game.players, H.sock)
               me == game.players[n].id
               opp == FindOther(game.players, me)
               oppId == IF opp = 0 THEN NoPlayer ELSE game.players[opp].id
           IN /\ n # 0
              /\ FindById(db[H.code].players, me) # 0
              /\ oppId # me
              /\ out' = { Ev("game_state", H.sock,
                             ClientGameState(WithoutFleetOf(db[H.code], oppId),
                                             H.code, me, oppId)) }
    ]_vars

\* a returning player is shown their own destroyer while the opponent's
\* destroyer is stored in another place
C40_OwnFleetShownOpponentElsewhere ==
    \E c \in Codes, e \in out :
        /\ e.ev = "game_state"
        /\ "ships" \in DOMAIN e.p
        /\ e.p.gameCode = c
        /\ db[c].shots = <<>>
        /\ \E n, m \in 1..Len(db[c].players) :
              /\ db[c].players[n].id = e.p.playerId
              /\ db[c].players[m].id = e.p.opponentId
              /\ db[c].players[n].placed
              /\ db[c].players[m].placed
              /\ db[c].players[n].ships # db[c].players[m].ships
              /\ e.p.ships = db[c].players[n].ships

------------------------------------------------------------------------------
(* The board rules on their own                                             *)

MaxLabShots == 3

LabCoords == (0..3) \X (0..3)

LabDestroyers == { MkShip("destroyer", 2, x, 0, v) : x \in {0, 1}, v \in BOOLEAN }
LabSubmarines == { MkShip("submarine", 3, xy[1], xy[2], v) :
                      xy \in { <<0, 2>>, <<1, 1>> }, v \in BOOLEAN }

\* the fleets validateShipPlacement accepts among one or two of these ships
LabFleets ==
    { f \in { <<d>> : d \in LabDestroyers }
            \cup { <<d, b>> : d \in LabDestroyers, b \in LabSubmarines }
            \cup { <<b, d>> : d \in LabDestroyers, b \in LabSubmarines } :
        validateShipPlacement(f) }

InitLogic ==
    /\ db = Fn([c \in InitCodes |-> NoRow])
    /\ games = Fn([c \in InitCodes |-> NoObj])
    /\ heap = Tup([o \in ObjIds |-> NullGame])
    /\ handlers = EmptyBag
    /\ rooms = Fn([c \in InitCodes |-> {}])
    /\ gone = {}
    /\ hung = FALSE
    /\ out = {}
    /\ \E f \in LabFleets : lab = [LabIdle EXCEPT !.fleet = f, !.ships = f]

\* the opponent fires at a cell validateShot lets through: checkShot runs on
\* the fleet in memory and the shot is recorded as the store would keep it
LabShoot(x, y) ==
    /\ Len(lab.shots) < MaxLabShots
    /\ validateShot(x, y, lab.shots)
    /\ LET r == checkShot(x, y, lab.ships) IN
          lab' = [lab EXCEPT
                     !.ships = r.ships,
                     !.shots = Append(@, [x |-> x, y |-> y, isHit |-> r.isHit,
                                          playerId |-> 2]),
                     !.last = [isHit |-> r.isHit, hitShipId |-> r.hitShipId,
                               isSunk |-> r.isSunk, isWin |-> r.isWin],
                     !.x = x, !.y = y]
    /\ UNCHANGED serverVars

NextLogic == \E xy \in LabCoords : LabShoot(xy[1], xy[2])

SpecLogic == InitLogic /\ [][NextLogic]_vars

\* the cells a ship occupies on the board it was placed on
OccupiedCells(ship) == { PlacementCell(ship, i) : i \in 0..(ship.size - 1) }

\* C4: for every valid fleet and duplicate-free shot history, the hit counts
\* reconstructGameState computes from the stored shots equal the hit counts
\* checkShot has built up shot by shot, for every ship.
C4_ReconstructedHitsAgree ==
    \A k \in 1..Len(lab.ships) :
        ReconstructHits(ToPlacement(lab.fleet[k]), lab.shots) = lab.ships[k].hits

\* C5: checkShot reports a hit on ship s exactly when the cell is one of the
\* cells s occupies under the placement geometry, and a miss otherwise.
C5_HitIffOccupied ==
    lab.shots # <<>> =>
        LET on == { k \in 1..Len(lab.fleet) : <<lab.x, lab.y>> \in OccupiedCells(lab.fleet[k]) }
        IN /\ lab.last.isHit <=> on # {}
           /\ \A k \in on : lab.last.hitShipId = lab.fleet[k].id

\* the cells the recorded shots were fired at
LabShotCells == { <<lab.shots[n].x, lab.shots[n].y>> : n \in 1..Len(lab.shots) }

\* C12: when the shots so far went, one each, to cells the fleet occupies,
\* the shot at a cell of ship s reports isSunk exactly when it was the last
\* cell of s still unshot, and isWin exactly when with it every ship of the
\* fleet has all its cells shot.
C12_SunkOnLastCell ==
    (lab.shots # <<>> /\ \A c \in LabShotCells :
                            \E k \in 1..Len(lab.fleet) : c \in OccupiedCells(lab.fleet[k])) =>
        \A k \in 1..Len(lab.fleet) :
            <<lab.x, lab.y>> \in OccupiedCells(lab.fleet[k]) =>
                /\ lab.last.isSunk <=> OccupiedCells(lab.fleet[k]) \subseteq LabShotCells
                /\ lab.last.isWin <=> \A j \in 1..Len(lab.fleet) :
                                          OccupiedCells(lab.fleet[j]) \subseteq LabShotCells

\* checkShot called on its own, as the unit tests call it: any cell, also one
\* fired at before
LabCheckShot(x, y) ==
    /\ Len(lab.shots) < MaxLabShots
    /\ LET r == checkShot(x, y, lab.ships) IN
          lab' = [lab EXCEPT
                     !.ships = r.ships,
                     !.shots = Append(@, [x |-> x, y |-> y, isHit |-> r.isHit,
                                          playerId |-> 2]),
                     !.last = [isHit |-> r.isHit, hitShipId |-> r.hitShipId,
                               isSunk |-> r.isSunk, isWin |-> r.isWin],
                     !.x = x, !.y = y]
    /\ UNCHANGED serverVars

NextShots == \E xy \in LabCoords : LabCheckShot(xy[1], xy[2])

SpecShots == InitLogic /\ [][NextShots]_vars

\* the cells at which checkShot finds the ship
HitCells(ship) == { ShotCell(ship, i) : i \in 0..(ship.size - 1) }

\* the cells fired at before the last shot
EarlierShotCells ==
    { <<lab.shots[n].x, lab.shots[n].y>> : n \in 1..(Len(lab.shots) - 1) }

\* C29: checkShot reports isSunk when the last cell of a ship not yet hit is
\* hit, also when a cell of that ship was hit more than once before (for a
\* ship that checkShot finds at as many cells as its size, these cells being
\* the cells of the ship, and no other ship being found at any of them)
C29_SunkDespiteRepeatedHit ==
    \A k \in 1..Len(lab.fleet) :
        (/\ lab.shots # <<>>
         /\ Cardinality(HitCells(lab.fleet[k])) = lab.fleet[k].size
         /\ <<lab.x, lab.y>> \in HitCells(lab.fleet[k])
         /\ <<lab.x, lab.y>> \notin EarlierShotCells
         /\ HitCells(lab.fleet[k]) \subseteq LabShotCells
         /\ \A j \in 1..Len(lab.fleet) :
               j # k => HitCells(lab.fleet[j]) \cap HitCells(lab.fleet[k]) = {})
        => lab.last.isSunk

------------------------------------------------------------------------------
(* The validations on their own                                             *)

MaxHistory == 2

\* coordinates around both edges of the grid
ProbeAxis == { -1, 0, 1, GRID_SIZE - 1, GRID_SIZE }
ProbeCoords == ProbeAxis \X ProbeAxis

HistoryCells == { <<0, 0>>, <<GRID_SIZE - 1, GRID_SIZE - 1>>, <<0, GRID_SIZE - 1>> }

\* shot histories of up to MaxHistory shots
RECURSIVE Histories(_)
Histories(n) ==
    IF n = 0 THEN { <<>> }
    ELSE Histories(n - 1) \cup
         { Append(h, [x |-> c[1], y |-> c[2], isHit |-> FALSE]) :
               h \in { g \in Histories(n - 1) : Len(g) = n - 1 }, c \in HistoryCells }

\* ships in the grid, over its edges, and lacking a coordinate
ProbeShips ==
    { MkShip("destroyer", 2, x, y, v) :
          x \in { -1, 0, GRID_SIZE - 2, GRID_SIZE - 1 }, y \in { 0, GRID_SIZE - 1 },
          v \in BOOLEAN }
    \cup { [id |-> "destroyer", size |-> 2, y |-> 0, isVertical |-> FALSE, hits |-> 0],
           [id |-> "destroyer", size |-> 2, x |-> 0, isVertical |-> TRUE, hits |-> 0] }

ProbeFleets ==
    { <<>> } \cup { <<a>> : a \in ProbeShips } \cup { <<a, b>> : a \in ProbeShips, b \in ProbeShips }

InitRules ==
    /\ db = Fn([c \in InitCodes |-> NoRow])
    /\ games = Fn([c \in InitCodes |-> NoObj])
    /\ heap = Tup([o \in ObjIds |-> NullGame])
    /\ handlers = EmptyBag
    /\ rooms = Fn([c \in InitCodes |-> {}])
    /\ gone = {}
    /\ hung = FALSE
    /\ out = {}
    /\ \E f \in ProbeFleets, h \in Histories(MaxHistory) :
           lab = [LabIdle EXCEPT !.fleet = f, !.shots = h]

\* validateShot is called, once, on a cell and the history
ProbeShot(x, y) ==
    /\ lab.op = ""
    /\ lab' = [lab EXCEPT !.op = "validateShot", !.x = x, !.y = y,
                          !.valid = validateShot(x, y, lab.shots)]
    /\ UNCHANGED serverVars

\* validateShipPlacement is called, once, on the fleet
ProbePlacement ==
    /\ lab.op = ""
    /\ lab' = [lab EXCEPT !.op = "validateShipPlacement",
                          !.valid = validateShipPlacement(lab.fleet)]
    /\ UNCHANGED serverVars

NextRules ==
    \/ \E xy \in ProbeCoords : ProbeShot(xy[1], xy[2])
    \/ ProbePlacement

SpecRules == InitRules /\ [][NextRules]_vars

\* C19: validateShot answers false exactly when x or y lies outside 0..9 or
\* the cell is in the history, and true otherwise.
C19_ShotValidIff ==
    lab.op = "validateShot" =>
        (lab.valid <=> /\ lab.x \in 0..9 /\ lab.y \in 0..9
                       /\ <<lab.x, lab.y>> \notin LabShotCells)

\* validateShot has refused a cell of the grid that the history holds
C19_TakenCellRefused ==
    /\ lab.op = "validateShot" /\ ~lab.valid
    /\ lab.x \in 0..9 /\ lab.y \in 0..9
    /\ <<lab.x, lab.y>> \in LabShotCells

\* every ship of the fleet carries both coordinates
Located(ships) == \A k \in 1..Len(ships) : {"x", "y"} \subseteq DOMAIN ships[k]

\* C20: validateShipPlacement answers true exactly when every ship carries
\* its coordinates, every cell a ship occupies lies in the 10x10 grid and no
\* cell is occupied by two ships; the empty fleet is accepted.
C20_PlacementValidIff ==
    lab.op = "validateShipPlacement" =>
        (lab.valid <=>
            IF ~Located(lab.fleet) THEN FALSE
            ELSE /\ \A k \in 1..Len(lab.fleet) :
                        OccupiedCells(lab.fleet[k]) \subseteq (0..9) \X (0..9)
                 /\ \A k \in 1..Len(lab.fleet), j \in 1..Len(lab.fleet) :
                        k # j => OccupiedCells(lab.fleet[k]) \cap OccupiedCells(lab.fleet[j]) = {})

\* validateShipPlacement has refused two ships of the grid that share a cell
C20_OverlapRefused ==
    /\ lab.op = "validateShipPlacement" /\ ~lab.valid
    /\ Len(lab.fleet) = 2 /\ Located(lab.fleet)
    /\ \A k \in 1..2 : OccupiedCells(lab.fleet[k]) \subseteq (0..9) \X (0..9)
    /\ OccupiedCells(lab.fleet[1]) \cap OccupiedCells(lab.fleet[2]) # {}

====
